---- MODULE Spec2Model ----
(***************************************************************************)
(* Model of BigTable::decode_read_rows_response (bigtable-rs/src/          *)
(* bigtable.rs): the loop that pulls ReadRowsResponse messages off a tonic *)
(* stream, checks the wall-clock timeout once per message and folds the    *)
(* message's CellChunks into rows.                                         *)
(*                                                                         *)
(* Byte strings are sequences of naturals.  Option<T> is a sequence of     *)
(* length 0 (None) or 1 (Some).  The decoder never inspects the bytes of a *)
(* row key, a qualifier or a value (it only tests a key for emptiness and  *)
(* a qualifier for presence), so the i-th chunk of the stream carries the  *)
(* byte i in each field it fills: every chunk's contribution stays         *)
(* recognisable in the output.                                             *)
(***************************************************************************)
EXTENDS Integers, Sequences, FiniteSets, TLC

\* Total number of chunks a stream delivers.
MaxChunks == 3
\* Largest reading of the monotonic clock.
MaxTime == 1

None == << >>
Some(x) == << x >>

\* timestamp_micros of a chunk: 0 (continuation) and two ordered versions.
Timestamps == 0 .. 2
\* tonic::Status values a failing stream may yield.
Statuses == {"Unavailable", "Internal"}
\* What AccessToken::refresh may leave in the shared token: a fresh token, the
\* expired one (the refresh failed), or text that is no legal header value.
RefreshOutcomes == {"fresh", "expired", "malformed"}
\* self.timeout: None, or a Duration the clock can exceed.
Timeouts == {None} \cup {Some(d) : d \in 0 .. (MaxTime - 1)}

\* What the stream decides freely about a chunk.
ChunkShapes == [hasKey : BOOLEAN, hasQualifier : BOOLEAN, ts : Timestamps, commit : BOOLEAN]
\* The chunks of the streams decoded under a timeout: cell starts of one version.
TimedShapes == {sh \in ChunkShapes : sh.hasQualifier /\ sh.ts = 1}

\* read_rows_response::CellChunk, the i-th of the stream.
CellChunk(i, sh) ==
    [ row_key          |-> IF sh.hasKey THEN << i >> ELSE << >>,
      qualifier        |-> IF sh.hasQualifier THEN Some(<< i >>) ELSE None,
      timestamp_micros |-> sh.ts,
      value            |-> << i >>,
      row_status       |-> IF sh.commit THEN Some("CommitRow") ELSE None ]

VARIABLES
    rows,             \* Vec<(RowKey, RowData)>: the output under construction
    row_key,          \* Option<RowKey>
    row_data,         \* Vec<(CellName, CellValue)>
    cell_name,        \* Option<CellName>
    cell_timestamp,   \* i64
    cell_value,       \* Vec<u8>
    cell_version_ok,  \* bool
    started,          \* Instant taken when decoding starts
    timeout,          \* self.timeout : Option<Duration>
    now,              \* the monotonic clock
    chunks,           \* number of res.chunks the for loop has still to visit
    pc,               \* "await" (at rrr.message().await), "chunks", "done"
    result,           \* None until the call returns, then Some(Result)
    seen,             \* history: the chunks processed so far, in order
    item,             \* history: what rrr.message() yielded last
    buffered,         \* history: cell_value as the last chunk left it at the
                      \*   end of "if cell_version_ok { .. }"
    dropped,          \* history: indexes of the chunks whose value was not appended
    access_token,     \* self.access_token : Option<AccessToken>
    token,            \* what the shared AccessToken holds
    refreshes,        \* history: completed calls of AccessToken::refresh
    rpc,              \* None until client.read_rows is issued, then Some(request)
    calls             \* the locals of the decodings that run side by side

\* The state of read_rows around the decoding.
session == << access_token, token, refreshes, rpc >>

vars == << rows, row_key, row_data, cell_name, cell_timestamp, cell_value,
           cell_version_ok, started, timeout, now, chunks, pc, result, seen, item,
           buffered, dropped, session, calls >>

decoder == << rows, row_key, row_data, cell_name, cell_timestamp, cell_value,
              cell_version_ok >>

----------------------------------------------------------------------------
\* The results of the call.

Ok(rs) == [tag |-> "Ok", rows |-> rs]
Err(e) == [tag |-> "Err", error |-> e]
TimeoutError == [kind |-> "TimeoutError"]

\* TimeoutReturn that hands out the rows completed so far.
TimeoutReturnsRows(rs) == Ok(rs)

\* return Err(Error::TimeoutError): what the call returns when the timeout is hit
\* with rs in the output list.
TimeoutReturn(rs) == Err(TimeoutError)

\* Ok(rows): what the call returns when the while loop ends.
EofReturn(rs) == Ok(rs)

\* FromStatus that does not keep the status.
FromStatusUnknown(status) == [kind |-> "RpcError", status |-> "Unknown"]

\* impl From<tonic::Status> for Error
FromStatus(status) == [kind |-> "RpcError", status |-> status]

\* Instant::now().duration_since(started) > timeout
Expired(t_now, t_started, t_timeout) ==
    /\ t_timeout # None
    /\ t_now - t_started > t_timeout[1]

----------------------------------------------------------------------------
\* The body of the for loop, as functions of the decoder's variables.

\* "Starting a new row?"
StartRow(rk, chunk) ==
    IF chunk.row_key # << >> THEN Some(chunk.row_key) ELSE rk

\* StartCell that takes an equal timestamp for an older version.
StartCellTieStale(rd, cn, ts, cv, ok, chunk) ==
    IF chunk.qualifier # None
    THEN [ row_data        |-> IF cn # None THEN Append(rd, << cn[1], cv >>) ELSE rd,
           cell_name       |-> Some(chunk.qualifier[1]),
           cell_timestamp  |-> chunk.timestamp_micros,
           cell_value      |-> IF cn # None THEN << >> ELSE cv,
           cell_version_ok |-> TRUE ]
    ELSE IF chunk.timestamp_micros # 0
         THEN IF chunk.timestamp_micros <= ts
              THEN [ row_data |-> rd, cell_name |-> cn, cell_timestamp |-> ts,
                     cell_value |-> cv, cell_version_ok |-> FALSE ]
              ELSE [ row_data |-> rd, cell_name |-> cn,
                     cell_timestamp |-> chunk.timestamp_micros,
                     cell_value |-> << >>, cell_version_ok |-> TRUE ]
         ELSE [ row_data |-> rd, cell_name |-> cn, cell_timestamp |-> ts,
                cell_value |-> cv, cell_version_ok |-> ok ]

\* StartCell that starts from timestamp 0 and a kept version when no cell is
\* open, as if the reset had cleared the timestamp and the flag too.
StartCellNoCarry(rd, cn, ts, cv, ok, chunk) ==
    LET ts0 == IF cn = None THEN 0 ELSE ts
        ok0 == IF cn = None THEN TRUE ELSE ok
    IN  IF chunk.qualifier # None
        THEN [ row_data        |-> IF cn # None THEN Append(rd, << cn[1], cv >>) ELSE rd,
               cell_name       |-> Some(chunk.qualifier[1]),
               cell_timestamp  |-> chunk.timestamp_micros,
               cell_value      |-> IF cn # None THEN << >> ELSE cv,
               cell_version_ok |-> TRUE ]
        ELSE IF chunk.timestamp_micros # 0
             THEN IF chunk.timestamp_micros < ts0
                  THEN [ row_data |-> rd, cell_name |-> cn, cell_timestamp |-> ts0,
                         cell_value |-> cv, cell_version_ok |-> FALSE ]
                  ELSE [ row_data |-> rd, cell_name |-> cn,
                         cell_timestamp |-> chunk.timestamp_micros,
                         cell_value |-> << >>, cell_version_ok |-> TRUE ]
             ELSE [ row_data |-> rd, cell_name |-> cn, cell_timestamp |-> ts0,
                    cell_value |-> cv, cell_version_ok |-> ok0 ]

\* "Starting a new cell?" and its else branch: the cell under construction.
StartCell(rd, cn, ts, cv, ok, chunk) ==
    IF chunk.qualifier # None
    THEN [ row_data        |-> IF cn # None THEN Append(rd, << cn[1], cv >>) ELSE rd,
           cell_name       |-> Some(chunk.qualifier[1]),
           cell_timestamp  |-> chunk.timestamp_micros,
           cell_value      |-> IF cn # None THEN << >> ELSE cv,
           cell_version_ok |-> TRUE ]
    ELSE IF chunk.timestamp_micros # 0
         THEN IF chunk.timestamp_micros < ts
              THEN [ row_data |-> rd, cell_name |-> cn, cell_timestamp |-> ts,
                     cell_value |-> cv, cell_version_ok |-> FALSE ]
              ELSE [ row_data |-> rd, cell_name |-> cn,
                     cell_timestamp |-> chunk.timestamp_micros,
                     cell_value |-> << >>, cell_version_ok |-> TRUE ]
         ELSE [ row_data |-> rd, cell_name |-> cn, cell_timestamp |-> ts,
                cell_value |-> cv, cell_version_ok |-> ok ]

\* AppendValue without the test of the flag.
AppendValueAlways(ok, cv, chunk) == cv \o chunk.value

\* if cell_version_ok { cell_value.append(&mut chunk.value) }
AppendValue(ok, cv, chunk) ==
    IF ok THEN cv \o chunk.value ELSE cv

\* EndRow without the test of the commit marker.
EndRowAnyChunk(rs, rk, rd, cn, cv, chunk) ==
    LET data == IF cn # None THEN Append(rd, << cn[1], cv >>) ELSE rd
    IN  IF rk # None THEN Append(rs, << rk[1], data >>) ELSE rs

\* EndRow that emits the row of a commit even when no row key is set.
EndRowKeyless(rs, rk, rd, cn, cv, chunk) ==
    IF chunk.row_status = Some("CommitRow")
    THEN LET data == IF cn # None THEN Append(rd, << cn[1], cv >>) ELSE rd
         IN  Append(rs, << IF rk # None THEN rk[1] ELSE << >>, data >>)
    ELSE rs

\* "End of a row?": the output list after the chunk.
EndRow(rs, rk, rd, cn, cv, chunk) ==
    IF chunk.row_status = Some("CommitRow")
    THEN LET data == IF cn # None THEN Append(rd, << cn[1], cv >>) ELSE rd
         IN  IF rk # None THEN Append(rs, << rk[1], data >>) ELSE rs
    ELSE rs

\* NextRowState that resets inside the commit branch only.
NextRowStateOnCommit(rk, rd, cn, cv, chunk) ==
    IF chunk.row_status = Some("CommitRow")
    THEN [ row_key |-> None, row_data |-> << >>, cell_value |-> << >>, cell_name |-> None ]
    ELSE [ row_key |-> rk, row_data |-> rd, cell_value |-> cv, cell_name |-> cn ]

\* The statements that close the loop body: the per-row state after the chunk.
NextRowState(rk, rd, cn, cv, chunk) ==
    [ row_key |-> None, row_data |-> << >>, cell_value |-> << >>, cell_name |-> None ]

----------------------------------------------------------------------------
\* The calls of decode_read_rows_response that run side by side, each on its
\* own stream.
CallIds == {1, 2}

\* The locals a call declares before its while loop.
NewLocals ==
    [ rows |-> << >>, row_key |-> None, row_data |-> << >>, cell_name |-> None,
      cell_timestamp |-> 0, cell_value |-> << >>, cell_version_ok |-> TRUE ]

\* The for body on a call's locals d.
StepChunk(d, chunk) ==
    LET rk    == StartRow(d.row_key, chunk)
        cell  == StartCell(d.row_data, d.cell_name, d.cell_timestamp, d.cell_value,
                           d.cell_version_ok, chunk)
        cv    == AppendValue(cell.cell_version_ok, cell.cell_value, chunk)
        reset == NextRowState(rk, cell.row_data, cell.cell_name, cv, chunk)
    IN  [ rows            |-> EndRow(d.rows, rk, cell.row_data, cell.cell_name, cv, chunk),
          row_key         |-> reset.row_key,
          row_data        |-> reset.row_data,
          cell_name       |-> reset.cell_name,
          cell_value      |-> reset.cell_value,
          cell_timestamp  |-> cell.cell_timestamp,
          cell_version_ok |-> cell.cell_version_ok ]

InitCalls ==
    [id \in CallIds |->
        [ locals |-> NewLocals, chunks |-> 0, pc |-> "await", result |-> None,
          seen |-> << >>, item |-> None ]]

\* The state when decode_read_rows_response reaches its while loop.
InitDecoder ==
    /\ calls = InitCalls
    /\ rows = << >>
    /\ row_key = None
    /\ row_data = << >>
    /\ cell_name = None
    /\ cell_timestamp = 0
    /\ cell_value = << >>
    /\ cell_version_ok = TRUE
    /\ now = 0
    /\ started = now
    /\ chunks = 0
    /\ pc = "await"
    /\ result = None
    /\ seen = << >>
    /\ item = None
    /\ buffered = << >>
    /\ dropped = {}

\* decode_read_rows_response on its own: the stream was obtained by a client
\* without access token.
StreamObtained ==
    /\ access_token = None
    /\ token = "unrefreshed"
    /\ refreshes = 0
    /\ rpc = Some([authorization |-> None])

Init ==
    /\ InitDecoder
    /\ StreamObtained
    /\ timeout \in Timeouts

\* Time passes, whether the call is suspended in rrr.message().await or running.
Tick ==
    /\ pc # "done"
    /\ now < MaxTime
    /\ now' = now + 1
    /\ UNCHANGED << decoder, started, timeout, chunks, pc, result, seen, item,
                    buffered, dropped, session, calls >>

\* rrr.message() yields Ok(Some(res)) and the elapsed time is within the timeout:
\* the for loop starts on res.chunks.
RecvMessage ==
    /\ pc = "await"
    /\ ~ Expired(now, started, timeout)
    /\ \E n \in 0 .. (MaxChunks - Len(seen)) : chunks' = n
    /\ pc' = IF chunks' = 0 THEN "await" ELSE "chunks"
    /\ item' = Some("message")
    /\ UNCHANGED << decoder, started, timeout, now, result, seen,
                    buffered, dropped, session, calls >>

\* RecvTimeout with the elapsed time tested before every chunk as well.
RecvTimeoutPerChunk ==
    /\ pc \in {"await", "chunks"}
    /\ Expired(now, started, timeout)
    /\ item' = Some("message")
    /\ pc' = "done"
    /\ result' = Some(TimeoutReturn(rows))
    /\ UNCHANGED << decoder, started, timeout, now, chunks, seen,
                    buffered, dropped, session, calls >>

\* rrr.message() yields Ok(Some(res)) after the timeout: return Err(TimeoutError).
RecvTimeout ==
    /\ pc = "await"
    /\ Expired(now, started, timeout)
    /\ item' = Some("message")
    /\ pc' = "done"
    /\ result' = Some(TimeoutReturn(rows))
    /\ UNCHANGED << decoder, started, timeout, now, chunks, seen,
                    buffered, dropped, session, calls >>

\* rrr.message() yields Err(status): the ? operator returns it through From.
RecvError ==
    /\ pc = "await"
    /\ \E status \in Statuses :
         /\ item' = Some(status)
         /\ result' = Some(Err(FromStatus(status)))
    /\ pc' = "done"
    /\ UNCHANGED << decoder, started, timeout, now, chunks, seen,
                    buffered, dropped, session, calls >>

\* rrr.message() yields Ok(None): the loop ends and Ok(rows) is returned.
RecvEof ==
    /\ pc = "await"
    /\ item' = Some("eof")
    /\ pc' = "done"
    /\ result' = Some(EofReturn(rows))
    /\ UNCHANGED << decoder, started, timeout, now, chunks, seen,
                    buffered, dropped, session, calls >>

\* One iteration of the for loop over res.chunks; the chunk is one of Shapes.
ProcessChunk(Shapes) ==
    /\ pc = "chunks"
    /\ chunks > 0
    /\ \E sh \in Shapes :
       LET chunk == CellChunk(Len(seen) + 1, sh)
           rk    == StartRow(row_key, chunk)
           cell  == StartCell(row_data, cell_name, cell_timestamp, cell_value,
                              cell_version_ok, chunk)
           cv    == AppendValue(cell.cell_version_ok, cell.cell_value, chunk)
           reset == NextRowState(rk, cell.row_data, cell.cell_name, cv, chunk)
       IN  /\ rows' = EndRow(rows, rk, cell.row_data, cell.cell_name, cv, chunk)
           /\ row_key' = reset.row_key
           /\ row_data' = reset.row_data
           /\ cell_name' = reset.cell_name
           /\ cell_value' = reset.cell_value
           /\ cell_timestamp' = cell.cell_timestamp
           /\ cell_version_ok' = cell.cell_version_ok
           /\ seen' = Append(seen, chunk)
           /\ buffered' = cv
           /\ dropped' = IF cell.cell_version_ok THEN dropped
                         ELSE dropped \cup {Len(seen) + 1}
    /\ chunks' = chunks - 1
    /\ pc' = IF chunks' = 0 THEN "await" ELSE "chunks"
    /\ UNCHANGED << started, timeout, now, result, item, session, calls >>

\* The call with or without a timeout, over streams that may fail.
Next ==
    \/ Tick
    \/ RecvMessage
    \/ RecvTimeout
    \/ RecvError
    \/ RecvEof
    \/ ProcessChunk(TimedShapes)

Spec == Init /\ [][Next]_vars

\* The call with no timeout configured (the clock is never read), over streams
\* of arbitrary chunks that end with EOF.
InitDecode ==
    /\ InitDecoder
    /\ StreamObtained
    /\ timeout = None

NextDecode ==
    \/ RecvMessage
    \/ RecvEof
    \/ ProcessChunk(ChunkShapes)

SpecDecode == InitDecode /\ [][NextDecode]_vars

----------------------------------------------------------------------------
\* read_rows: refresh the access token, issue the RPC, decode the stream.

\* RefreshedToken that never calls AccessToken::refresh.
RefreshSkipped(tok, held, outcome) == held

\* refresh_access_token: the shared token after it, given what
\* AccessToken::refresh would leave.
RefreshedToken(tok, held, outcome) ==
    IF tok # None THEN outcome ELSE held

\* The interceptor of BigTableConnection::client: the authorization metadata
\* of the request, None when there is no access token or when
\* MetadataValue::from_str rejects it.
Authorization(tok, held) ==
    IF tok # None /\ held # "malformed" THEN Some(held) ELSE None

InitRead ==
    /\ rows = << >>
    /\ row_key = None
    /\ row_data = << >>
    /\ cell_name = None
    /\ cell_timestamp = 0
    /\ cell_value = << >>
    /\ cell_version_ok = TRUE
    /\ now = 0
    /\ started = 0
    /\ chunks = 0
    /\ pc = "refresh"
    /\ calls = InitCalls
    /\ result = None
    /\ seen = << >>
    /\ item = None
    /\ buffered = << >>
    /\ dropped = {}
    /\ timeout \in Timeouts
    /\ access_token \in {None, Some("AccessToken")}
    /\ token = "unrefreshed"
    /\ refreshes = 0
    /\ rpc = None

\* self.refresh_access_token().await
RefreshAccessToken ==
    /\ pc = "refresh"
    /\ \E outcome \in RefreshOutcomes :
         token' = RefreshedToken(access_token, token, outcome)
    /\ refreshes' = refreshes + 1
    /\ pc' = "rpc"
    /\ UNCHANGED << decoder, started, timeout, now, chunks, result, seen, item,
                    buffered, dropped, access_token, rpc, calls >>

\* self.client.read_rows(request).await yields the stream: decoding starts.
ReadRowsOk ==
    /\ pc = "rpc"
    /\ rpc' = Some([authorization |-> Authorization(access_token, token)])
    /\ started' = now
    /\ pc' = "await"
    /\ UNCHANGED << decoder, timeout, now, chunks, result, seen, item,
                    buffered, dropped, access_token, token, refreshes, calls >>

\* self.client.read_rows(request).await yields Err(status): ? returns it.
ReadRowsErr ==
    /\ pc = "rpc"
    /\ rpc' = Some([authorization |-> Authorization(access_token, token)])
    /\ \E status \in Statuses : result' = Some(Err(FromStatus(status)))
    /\ pc' = "done"
    /\ UNCHANGED << decoder, started, timeout, now, chunks, seen, item,
                    buffered, dropped, access_token, token, refreshes, calls >>

\* read_rows as a whole.
NextRead ==
    \/ RefreshAccessToken
    \/ ReadRowsOk
    \/ ReadRowsErr
    \/ Tick
    \/ RecvMessage
    \/ RecvTimeout
    \/ RecvError
    \/ RecvEof
    \/ ProcessChunk(TimedShapes)

SpecRead == InitRead /\ [][NextRead]_vars

----------------------------------------------------------------------------
\* Two calls of decode_read_rows_response without timeout, interleaved chunk
\* by chunk, each over its own stream.

\* The chunks of the interleaved streams: each commits a row of its own, as a
\* cell start or as a further version of a cell.
ConcurrentShapes == {sh \in ChunkShapes : sh.hasKey /\ sh.commit /\ sh.ts # 0}

\* Locals of a static decoder state, the same for every call.
LocalsShared(cs, id) == cs[1].locals

\* The locals call id works on: its own.
Locals(cs, id) == cs[id].locals

CallRecvMessage(id) ==
    /\ calls[id].pc = "await"
    /\ \E n \in 0 .. (MaxChunks - 1 - Len(calls[id].seen)) :
         calls' = [calls EXCEPT ![id].chunks = n,
                                ![id].pc = IF n = 0 THEN "await" ELSE "chunks",
                                ![id].item = Some("message")]
    /\ UNCHANGED << decoder, started, timeout, now, chunks, pc, result, seen, item,
                    buffered, dropped, session >>

CallRecvError(id) ==
    /\ calls[id].pc = "await"
    /\ \E status \in Statuses :
         calls' = [calls EXCEPT ![id].pc = "done",
                                ![id].item = Some(status),
                                ![id].result = Some(Err(FromStatus(status)))]
    /\ UNCHANGED << decoder, started, timeout, now, chunks, pc, result, seen, item,
                    buffered, dropped, session >>

CallRecvEof(id) ==
    /\ calls[id].pc = "await"
    /\ calls' = [calls EXCEPT ![id].pc = "done",
                              ![id].item = Some("eof"),
                              ![id].result = Some(EofReturn(Locals(calls, id).rows))]
    /\ UNCHANGED << decoder, started, timeout, now, chunks, pc, result, seen, item,
                    buffered, dropped, session >>

CallProcessChunk(id) ==
    /\ calls[id].pc = "chunks"
    /\ calls[id].chunks > 0
    /\ \E sh \in ConcurrentShapes :
         LET chunk == CellChunk(10 * id + Len(calls[id].seen) + 1, sh)
         IN  calls' = [calls EXCEPT
                         ![id].locals = StepChunk(Locals(calls, id), chunk),
                         ![id].seen = Append(@, chunk),
                         ![id].chunks = @ - 1,
                         ![id].pc = IF calls[id].chunks = 1 THEN "await" ELSE "chunks"]
    /\ UNCHANGED << decoder, started, timeout, now, chunks, pc, result, seen, item,
                    buffered, dropped, session >>

NextConcurrent ==
    \E id \in CallIds :
        \/ CallRecvMessage(id)
        \/ CallRecvError(id)
        \/ CallRecvEof(id)
        \/ CallProcessChunk(id)

SpecConcurrent == InitDecode /\ [][NextConcurrent]_vars

----------------------------------------------------------------------------
\* Vocabulary of the properties: what a stream of chunks stands for.

IsCommit(c) == c.row_status = Some("CommitRow")

\* Number of commit-marked chunks of s.
Commits(s) == Cardinality({i \in 1 .. Len(s) : IsCommit(s[i])})

\* Index of the last commit-marked chunk of s, 0 when there is none.
LastCommit(s) ==
    LET C == {i \in 1 .. Len(s) : IsCommit(s[i])}
    IN  IF C = {} THEN 0 ELSE CHOOSE i \in C : \A j \in C : j <= i

\* The value bytes of all chunks of s, in stream order.
RECURSIVE ConcatValues(_)
ConcatValues(s) ==
    IF s = << >> THEN << >> ELSE s[1].value \o ConcatValues(Tail(s))

\* The cells a conflict-free row is made of: one per qualifier, in arrival
\* order, each holding the bytes of its chunks.
RECURSIVE RowCells(_)
RowCells(s) ==
    IF s = << >> THEN << >>
    ELSE LET init == RowCells(SubSeq(s, 1, Len(s) - 1))
             c    == s[Len(s)]
         IN  IF c.qualifier # None
             THEN Append(init, << c.qualifier[1], c.value >>)
             ELSE IF init = << >> THEN << >>
                  ELSE [init EXCEPT ![Len(init)] = << @[1], @[2] \o c.value >>]

\* s is exactly one complete row without version conflicts: the first chunk
\* carries the row key and opens a cell, the last one (and no other) commits,
\* and every chunk without a qualifier is a plain continuation.
SingleRow(s) ==
    /\ Len(s) >= 1
    /\ s[1].row_key # << >>
    /\ s[1].qualifier # None
    /\ \A i \in 1 .. Len(s) :
         /\ IsCommit(s[i]) <=> (i = Len(s))
         /\ i > 1 => s[i].row_key = << >>
         /\ s[i].qualifier = None => s[i].timestamp_micros = 0

\* s is one committed row whose single cell is split over all its chunks.
SplitCell(s) ==
    /\ SingleRow(s)
    /\ \A i \in 2 .. Len(s) : s[i].qualifier = None

\* s is a cell start followed by a second version of the cell that commits.
TwoVersions(s) ==
    /\ Len(s) = 2
    /\ s[1].row_key # << >> /\ s[1].qualifier # None /\ ~ IsCommit(s[1])
    /\ s[1].timestamp_micros # 0
    /\ s[2].row_key = << >> /\ s[2].qualifier = None /\ IsCommit(s[2])
    /\ s[2].timestamp_micros # 0

\* Chunk i of s opens a row: it is the first chunk or follows a commit.
OpensRow(s, i) == i = 1 \/ IsCommit(s[i - 1])

\* s is a sequence of complete rows: it ends with a commit and exactly the
\* chunks that open a row carry a row key.
CompleteRows(s) ==
    /\ Len(s) >= 1
    /\ IsCommit(s[Len(s)])
    /\ \A i \in 1 .. Len(s) : (s[i].row_key # << >>) <=> OpensRow(s, i)

\* The keys of the rows of s, in the stream order of their commit markers.
RECURSIVE RowKeys(_, _)
RowKeys(s, i) ==
    IF i > Len(s) THEN << >>
    ELSE IF OpensRow(s, i) THEN << s[i].row_key >> \o RowKeys(s, i + 1)
         ELSE RowKeys(s, i + 1)

\* The keys of a list of rows.
KeysOf(rs) == [j \in 1 .. Len(rs) |-> rs[j][1]]

Done == pc = "done"
ReturnedOk == Done /\ result[1].tag = "Ok"

----------------------------------------------------------------------------
\* Properties of the decoding, checked under SpecDecode.

\* C1: when the stream is exactly one complete row of N conflict-free cells,
\* decode returns exactly one row: the row key of the first chunk with the N
\* cells in qualifier-arrival order, each holding its chunks' bytes.
C1_SingleRowDecoded ==
    (ReturnedOk /\ SingleRow(seen)) =>
        result[1].rows = << << seen[1].row_key, RowCells(seen) >> >>

\* C2: per-row state is reset only by a commit: after a chunk without commit
\* marker the row key, the open cell and the buffered value still hold what
\* that chunk contributed.
C2_ResetOnlyOnCommit ==
    (seen # << >> /\ ~ IsCommit(seen[Len(seen)])) =>
        LET c == seen[Len(seen)]
        IN  /\ c.row_key # << >> => row_key = Some(c.row_key)
            /\ c.qualifier # None =>
                  /\ cell_name = c.qualifier
                  /\ Len(cell_value) >= Len(c.value)
                  /\ SubSeq(cell_value, Len(cell_value) - Len(c.value) + 1,
                            Len(cell_value)) = c.value

\* C3: a cell split over the K >= 1 chunks of a committed row is emitted with
\* the concatenation of the K values, in stream order.
C3_SplitCellConcatenated ==
    (ReturnedOk /\ SplitCell(seen)) =>
        result[1].rows =
            << << seen[1].row_key, << << seen[1].qualifier[1], ConcatValues(seen) >> >> >> >>

\* C4: an older version (T1) followed by a newer one (T2 > T1) of the same
\* cell, then committed: the emitted row holds the cell with the newer
\* payload only.
C4_NewerVersionReplaces ==
    (ReturnedOk /\ TwoVersions(seen)
        /\ seen[2].timestamp_micros > seen[1].timestamp_micros) =>
        result[1].rows =
            << << seen[1].row_key, << << seen[1].qualifier[1], seen[2].value >> >> >> >>

\* C5: a newer version (T2) followed by an older one (0 < T1 < T2) of the
\* same cell, then committed: the emitted row holds the cell with the first
\* payload only.
C5_OlderVersionIgnored ==
    (ReturnedOk /\ TwoVersions(seen)
        /\ seen[2].timestamp_micros < seen[1].timestamp_micros) =>
        result[1].rows =
            << << seen[1].row_key, << << seen[1].qualifier[1], seen[1].value >> >> >> >>

\* C6: for a stream of several complete rows the returned list has one entry
\* per completed row, in the stream order of the commit markers.
C6_OneRowPerCommitInOrder ==
    (ReturnedOk /\ CompleteRows(seen) /\ Commits(seen) >= 2) =>
        KeysOf(result[1].rows) = RowKeys(seen, 1)

\* The part of C6 that concerns the list alone: it only grows at its end, by
\* one row at a time, and its rows follow the order of the stream.
RowsAppendOnly ==
    [][\/ rows' = rows
       \/ /\ Len(rows') = Len(rows) + 1
          /\ SubSeq(rows', 1, Len(rows)) = rows
          /\ \A j \in 1 .. Len(rows) : rows[j][1][1] < rows'[Len(rows')][1][1]]_vars

\* C7: no partial emission. The list holds at most one row per commit-marked
\* chunk processed so far, no row holds bytes of a chunk that came after the
\* last commit marker, and at EOF exactly that list is returned.
C7_NoPartialEmission ==
    /\ Len(rows) <= Commits(seen)
    /\ \A j \in 1 .. Len(rows) :
         /\ rows[j][1][1] <= LastCommit(seen)
         /\ \A k \in 1 .. Len(rows[j][2]) :
              /\ rows[j][2][k][1][1] <= LastCommit(seen)
              /\ \A b \in 1 .. Len(rows[j][2][k][2]) :
                   rows[j][2][k][2][b] <= LastCommit(seen)
    /\ ReturnedOk => result[1].rows = rows

\* C7's case: the stream ended after a row was committed and a later chunk,
\* opening a row and a cell, was never followed by a commit marker.
C7_Witness ==
    /\ ReturnedOk
    /\ Len(result[1].rows) = 1
    /\ LastCommit(seen) = 1
    /\ Len(seen) >= 2
    /\ seen[2].row_key # << >> /\ seen[2].qualifier # None

----------------------------------------------------------------------------
\* Properties of the timeout and of the stream's errors, checked under Spec.

\* The rows a caller gets out of a Result.
RowsReceived(r) == IF r.tag = "Ok" THEN r.rows ELSE << >>

\* The call ended on a message: the timeout was detected at its receipt.
TimedOut == Done /\ item = Some("message")

\* C8: with a timeout configured, no call returns Ok when the deadline had
\* passed before the end of the stream was observed.
C8_TimeoutWheneverDeadlinePassed ==
    ~ (Done /\ Expired(now, started, timeout) /\ result[1].tag = "Ok")

\* C9: a call that times out returns the Timeout error and no row, whatever
\* the output list held, leaves the message's chunks unprocessed, and takes
\* nothing more from the stream.
C9_TimeoutAllOrNothing ==
    /\ [](TimedOut =>
            /\ result = Some(Err(TimeoutError))
            /\ RowsReceived(result[1]) = << >>
            /\ chunks = 0)
    /\ [][TimedOut => UNCHANGED << item, seen, rows, result >>]_vars

\* C9's case: the timeout is detected when a row was already completed.
C9_Witness ==
    /\ TimedOut
    /\ result = Some(Err(TimeoutError))
    /\ Len(rows) >= 1

\* C10: the call returns Ok exactly when the stream reached EOF, and then the
\* list of completed rows; a stream error is returned as RpcError with the
\* status the stream yielded, without rows; and a call that returned takes
\* nothing more from the stream.
C10_OkAtEofErrorTerminal ==
    /\ [](Done =>
            /\ (result[1].tag = "Ok") <=> (item = Some("eof"))
            /\ item = Some("eof") => result[1] = Ok(rows)
            /\ item[1] \in Statuses =>
                  /\ result[1] = Err([kind |-> "RpcError", status |-> item[1]])
                  /\ RowsReceived(result[1]) = << >>)
    /\ [][Done => UNCHANGED vars]_vars

\* C10's case: the stream fails after a row was completed.
C10_Witness ==
    /\ Done
    /\ item[1] \in Statuses
    /\ result[1].tag = "Err"
    /\ Len(rows) >= 1

----------------------------------------------------------------------------
\* Properties of read_rows, checked under SpecRead.

\* C11: the RPC is issued only after the credential refresh has completed
\* (refresh_access_token has returned and, when there is an access token,
\* AccessToken::refresh with it), once per read, and no chunk is decoded and
\* no stream item taken before the RPC is issued.
C11_RefreshThenRpcThenDecode ==
    /\ rpc # None =>
         /\ refreshes = 1
         /\ access_token # None => token \in RefreshOutcomes
    /\ pc = "refresh" => refreshes = 0 /\ rpc = None
    /\ pc = "rpc" => rpc = None
    /\ (seen # << >> \/ item # None \/ pc \in {"await", "chunks"}) => rpc # None

\* C11's case: a read with an access token has decoded a chunk.
C11_Witness ==
    /\ access_token # None
    /\ refreshes = 1
    /\ token = "fresh"
    /\ rpc = Some([authorization |-> Some("fresh")])
    /\ seen # << >>

\* C18: when the refresh leaves no usable token the read ends with a
\* credential error and the RPC is never issued.
C18_CredentialFailureAborts ==
    (access_token # None /\ token \in {"expired", "malformed"}) =>
        /\ rpc = None
        /\ Done => result[1].tag = "Err" /\ result[1].error.kind = "AccessTokenError"

----------------------------------------------------------------------------
\* Properties of the loop body chunk by chunk, checked under SpecDecode (C17
\* under Spec).

\* The step processes a chunk.
ChunkStep == seen' # seen
\* The chunk processed last.
LastChunk(s) == s[Len(s)]

\* Byte b occurs in the byte string v.
Holds(v, b) == \E n \in 1 .. Len(v) : v[n] = b

\* Byte b occurs in the value of a cell of an emitted row.
Emitted(rs, b) ==
    \E j \in 1 .. Len(rs) : \E k \in 1 .. Len(rs[j][2]) : Holds(rs[j][2][k][2], b)

\* C13: a commit-marked chunk processed while no row key is established
\* raises no error and emits no row: the output list is unchanged, the
\* per-row state is reset and the call goes on with the stream.
C13_KeylessCommitEmitsNothing ==
    [][(ChunkStep /\ IsCommit(LastChunk(seen')) /\ row_key = None
            /\ LastChunk(seen').row_key = << >>) =>
        /\ rows' = rows
        /\ row_key' = None /\ row_data' = << >>
        /\ cell_name' = None /\ cell_value' = << >>
        /\ result' = None
        /\ pc' \in {"await", "chunks"}]_vars

\* C13's case: after a commit without row key, a later row was emitted and
\* returned.
C13_Witness ==
    /\ ReturnedOk
    /\ Len(seen) >= 2
    /\ IsCommit(seen[1]) /\ seen[1].row_key = << >>
    /\ Len(result[1].rows) = 1
    /\ result[1].rows[1][1] = << 2 >>

\* C14: the key of every emitted row is the row key of the first chunk since
\* the previous commit that carries one: no chunk before the one the key
\* comes from carries a key in the same construction cycle.
C14_KeyFromFirstKeyedChunk ==
    \A j \in 1 .. Len(rows) :
        LET k == rows[j][1][1]
        IN  \A k2 \in 1 .. (k - 1) :
                seen[k2].row_key # << >> =>
                    \E m \in k2 .. (k - 1) : IsCommit(seen[m])

C16_StaleBytesNeverRetained ==
    /\ [](\A i \in dropped :
             /\ ~ Holds(buffered, i)
             /\ ~ Holds(cell_value, i)
             /\ ~ Emitted(rows, i)
             /\ \A k \in 1 .. Len(row_data) : ~ Holds(row_data[k][2], i))
    /\ [][ChunkStep =>
            LET c == LastChunk(seen')
                i == Len(seen')
            IN  /\ (c.qualifier = None /\ c.timestamp_micros # 0
                        /\ c.timestamp_micros < cell_timestamp) =>
                      /\ ~ cell_version_ok'
                      /\ cell_timestamp' = cell_timestamp
                /\ (c.qualifier = None /\ c.timestamp_micros = 0) =>
                      cell_version_ok' = cell_version_ok
                /\ (c.qualifier # None \/ (c.timestamp_micros # 0
                        /\ c.timestamp_micros >= cell_timestamp)) =>
                      cell_version_ok'
                /\ (i \in dropped') <=> ~ cell_version_ok'
                /\ dropped \subseteq dropped']_vars

\* C16's case: a cell start (timestamp 2), a stale version (timestamp 1) and
\* its plain continuation, which commits the row.
C16_Witness ==
    /\ Len(seen) = 3
    /\ seen[1].qualifier # None /\ seen[1].timestamp_micros = 2
    /\ seen[2].qualifier = None /\ seen[2].timestamp_micros = 1
    /\ seen[3].qualifier = None /\ seen[3].timestamp_micros = 0
    /\ IsCommit(seen[3]) /\ seen[3].row_key # << >>
    /\ dropped = {2, 3}
    /\ cell_timestamp = 2
    /\ Len(rows) = 1

\* C17: the elapsed time is tested at the receipt of a message only. A call
\* returns only from rrr.message().await; a Timeout is returned only in a step
\* that receives a message with the elapsed time above the timeout, before
\* any chunk of it is processed; time passing while the call waits or between
\* two chunks returns nothing; and a message that passed the test has all its
\* chunks processed before the next item is taken or the call returns.
C17_TimeoutPerMessage ==
    /\ [](pc = "chunks" => chunks > 0 /\ result = None)
    /\ [](pc \in {"await", "done"} => chunks = 0)
    /\ [][result' # result =>
            /\ pc = "await" /\ now' = now /\ seen' = seen
            /\ result'[1] = Err(TimeoutError) =>
                  /\ item' = Some("message")
                  /\ timeout # None
                  /\ now - started > timeout[1]]_vars
    /\ [][pc = "chunks" => (result' = None /\ pc' # "done")]_vars
    /\ [][now' # now => UNCHANGED << result, pc, seen, chunks >>]_vars

\* C17's case: the deadline passed between the two chunks of a message and
\* the second chunk is about to be processed.
C17_Witness ==
    /\ pc = "chunks"
    /\ chunks > 0
    /\ seen # << >>
    /\ Expired(now, started, timeout)
    /\ result = None

\* The rows the commit-marked chunks of s with a row key make on their own.
RECURSIVE CommitChunkRows(_)
CommitChunkRows(s) ==
    IF s = << >> THEN << >>
    ELSE LET c == s[Len(s)]
             init == CommitChunkRows(SubSeq(s, 1, Len(s) - 1))
         IN  IF IsCommit(c) /\ c.row_key # << >>
             THEN Append(init, << c.row_key,
                                  IF c.qualifier # None
                                  THEN << << c.qualifier[1], c.value >> >>
                                  ELSE << >> >>)
             ELSE init

\* C19: after every chunk the row key is unset, the cell list empty, no cell
\* open and the buffer empty; the output is, in stream order, one row per
\* chunk that carries a commit marker and a non-empty row key, made of that
\* chunk alone: its key and, when it declares a qualifier, its one cell.
C19_ResetAfterEveryChunk ==
    /\ row_key = None
    /\ row_data = << >>
    /\ cell_name = None
    /\ cell_value = << >>
    /\ rows = CommitChunkRows(seen)
    /\ \A j \in 1 .. Len(rows) : Len(rows[j][2]) <= 1
    /\ ReturnedOk => result[1].rows = CommitChunkRows(seen)

\* C19's case: a chunk opened a row and a cell without committing, and the
\* row returned for the commit that followed holds the commit chunk only.
C19_Witness ==
    /\ ReturnedOk
    /\ Len(seen) = 2
    /\ seen[1].row_key # << >> /\ seen[1].qualifier # None /\ ~ IsCommit(seen[1])
    /\ IsCommit(seen[2]) /\ seen[2].qualifier # None
    /\ result[1].rows = << << << 2 >>, << << << 2 >>, << 2 >> >> >> >> >>

\* C20: the tracked timestamp and the flag change only when a chunk starts a
\* cell or carries a nonzero timestamp without qualifier; the end of a row
\* leaves them, so a chunk without qualifier is compared with the timestamp
\* an earlier row left, and dropped or kept by the flag it left.
C20_TimestampAndFlagCarryOver ==
    /\ [][~ ChunkStep => UNCHANGED << cell_timestamp, cell_version_ok >>]_vars
    /\ [][ChunkStep =>
            LET c == LastChunk(seen')
            IN  /\ (c.qualifier = None /\ c.timestamp_micros = 0) =>
                      UNCHANGED << cell_timestamp, cell_version_ok >>
                /\ c.qualifier # None =>
                      cell_timestamp' = c.timestamp_micros /\ cell_version_ok'
                /\ (c.qualifier = None /\ c.timestamp_micros # 0) =>
                      IF c.timestamp_micros < cell_timestamp
                      THEN cell_timestamp' = cell_timestamp /\ ~ cell_version_ok'
                      ELSE cell_timestamp' = c.timestamp_micros /\ cell_version_ok']_vars

\* C20's case: a row with timestamp 2 was committed, and the first chunk of
\* the next row, with timestamp 1 and no qualifier, was dropped as stale.
C20_Witness ==
    /\ Len(seen) >= 2
    /\ IsCommit(seen[1]) /\ seen[1].row_key # << >>
    /\ seen[1].qualifier # None /\ seen[1].timestamp_micros = 2
    /\ seen[2].row_key # << >>
    /\ seen[2].qualifier = None /\ seen[2].timestamp_micros = 1
    /\ Len(rows) >= 1
    /\ 2 \in dropped
    /\ cell_timestamp = 2

----------------------------------------------------------------------------
\* Properties of interleaved calls, checked under SpecConcurrent.

\* The locals of a call that decodes the chunks s alone.
RECURSIVE DecodedAlone(_)
DecodedAlone(s) ==
    IF s = << >> THEN NewLocals
    ELSE StepChunk(DecodedAlone(SubSeq(s, 1, Len(s) - 1)), s[Len(s)])

\* What a call returns alone on the chunks s followed by the item last.
ReturnedAlone(s, last) ==
    IF last = Some("eof") THEN Ok(DecodedAlone(s).rows)
    ELSE Err([kind |-> "RpcError", status |-> last[1]])

\* C12: interleaved calls share no decoding state. The locals and the result
\* of each call are those of the call run alone on its own stream, and a step
\* of one call leaves the other call as it is.
C12_CallsIndependent ==
    /\ [](\A id \in CallIds :
             /\ calls[id].locals = DecodedAlone(calls[id].seen)
             /\ calls[id].pc = "done" =>
                   calls[id].result = Some(ReturnedAlone(calls[id].seen, calls[id].item)))
    /\ [][\A id \in CallIds :
            calls'[id] # calls[id] =>
                \A other \in CallIds \ {id} : calls'[other] = calls[other]]_vars

\* C12's case: both calls returned rows, and the second call dropped a stale
\* version on its own timestamp while the first tracked a lower one.
C12_Witness ==
    /\ calls[1].pc = "done" /\ calls[2].pc = "done"
    /\ calls[1].result[1].tag = "Ok" /\ calls[2].result[1].tag = "Ok"
    /\ Len(calls[1].seen) = 2 /\ Len(calls[2].seen) = 2
    /\ calls[1].locals.cell_timestamp = 1
    /\ calls[2].locals.cell_timestamp = 2
    /\ ~ calls[2].locals.cell_version_ok
    /\ calls[1].locals.cell_version_ok

\* The single call of Spec, SpecDecode and SpecRead runs the same for body.
LocalsAsDecodedAlone ==
    [ rows |-> rows, row_key |-> row_key, row_data |-> row_data,
      cell_name |-> cell_name, cell_timestamp |-> cell_timestamp,
      cell_value |-> cell_value, cell_version_ok |-> cell_version_ok ]
        = DecodedAlone(seen)

====
